---- MODULE Spec2Model ----
(***************************************************************************)
(* k8s-node-external-ip-watcher: the Watcher of main.go.                   *)
(*                                                                         *)
(* Strings (node names, addresses, digests) are sequences of small         *)
(* naturals, one per byte, so that concatenation and the byte-wise         *)
(* ordering used by sort.Slice / sort.Strings are what they are in Go.     *)
(* The empty string "" is <<>>.                                            *)
(***************************************************************************)
EXTENDS Naturals, Sequences, FiniteSets

VARIABLES
    nodeIPs,      \* Watcher.nodeIPs: node name -> external IP
    currentHash,  \* Watcher.currentHash
    config,       \* Watcher.config: MinNodeCount and StaticIPs
    mu,           \* Watcher.mu: TRUE while the mutex is held
    pc,           \* position of every goroutine
    local,        \* locals of the call each goroutine is in
    outputFile,   \* the file at config.OutputPath
    prev,         \* history: the last finished call of renderAndExecute
    mutated,      \* history: nodeIPs changed since renderAndExecute was last entered
    lifecycle,    \* the process: "running", "signalled" (ctx is done) or "exited"
    hashIn,       \* the two NodeData values handed to calculateHash
    hashOut       \* the two fingerprints computed from hashIn

vars == <<nodeIPs, currentHash, config, mu, pc, local, outputFile, prev, mutated,
          lifecycle, hashIn, hashOut>>

watcherVars ==
    <<nodeIPs, currentHash, config, mu, pc, local, outputFile, prev, mutated, lifecycle>>

-----------------------------------------------------------------------------
(* Bounds *)

NumCallbacks == 1
MaxMinNodeCount == 2
MaxStatic == 2
NumTimes == 2

-----------------------------------------------------------------------------
(* Values *)

EmptyString == <<>>

\* node names: "n" and "n1" (one is a prefix of the other)
NodeNames == {<<1>>, <<1, 2>>}

\* external addresses: "1" and "21"
IPs == {<<1>>, <<2, 1>>}

\* static addresses: "11" and "2"
StaticPool == {<<1, 1>>, <<2>>}

\* the static address lists the watcher is configured with: none, or "2" then "11"
\* (a configured order that is not the sorted one)
ConfigStaticIPs == {<<>>, <<<<2>>, <<1, 1>>>>}

\* the value of time.Now() in renderAndExecute; no step of the watcher reads it back
RenderTimes == {1}

\* the timestamps of the NodeData values the hash is exercised on
HashTimes == 1..NumTimes

RECURSIVE SeqsUpTo(_, _)
SeqsUpTo(S, n) ==
    IF n = 0 THEN {<<>>}
    ELSE LET shorter == SeqsUpTo(S, n - 1)
         IN  shorter \cup {Append(s, x) : s \in {q \in shorter : Len(q) = n - 1}, x \in S}

Range(s) == {s[i] : i \in DOMAIN s}

\* every ordering of the entries of a map (Go's map iteration order is unspecified)
Orderings(S) ==
    {s \in [1..Cardinality(S) -> S] : \A i, j \in 1..Cardinality(S) : i # j => s[i] # s[j]}

\* all name -> address maps
Tables == UNION {[D -> IPs] : D \in SUBSET NodeNames}

\* make(map[string]string)
EmptyTable == [n \in {} |-> EmptyString]

-----------------------------------------------------------------------------
(* calculateHash *)

\* Go's string < : byte-wise lexicographic
RECURSIVE StrLess(_, _)
StrLess(a, b) ==
    IF b = <<>> THEN FALSE
    ELSE IF a = <<>> THEN TRUE
    ELSE IF a[1] # b[1] THEN a[1] < b[1]
    ELSE StrLess(Tail(a), Tail(b))

NodeLess(x, y) == StrLess(x.Name, y.Name)

RECURSIVE InsertNode(_, _)
InsertNode(sorted, x) ==
    IF sorted = <<>> THEN <<x>>
    ELSE IF NodeLess(x, Head(sorted)) THEN <<x>> \o sorted
    ELSE <<Head(sorted)>> \o InsertNode(Tail(sorted), x)

RECURSIVE SortNodesFrom(_, _)
SortNodesFrom(nodes, acc) ==
    IF nodes = <<>> THEN acc
    ELSE SortNodesFrom(Tail(nodes), InsertNode(acc, Head(nodes)))

SortNodesUnsorted(nodes) == nodes

\* sort.Slice(nodes, func(i, j) { nodes[i].Name < nodes[j].Name }) on a copy
SortNodes(nodes) == SortNodesFrom(nodes, <<>>)

RECURSIVE InsertString(_, _)
InsertString(sorted, x) ==
    IF sorted = <<>> THEN <<x>>
    ELSE IF StrLess(x, Head(sorted)) THEN <<x>> \o sorted
    ELSE <<Head(sorted)>> \o InsertString(Tail(sorted), x)

RECURSIVE SortStringsFrom(_, _)
SortStringsFrom(ss, acc) ==
    IF ss = <<>> THEN acc
    ELSE SortStringsFrom(Tail(ss), InsertString(acc, Head(ss)))

\* sort.Strings(ips) on a copy
SortStrings(ss) == SortStringsFrom(ss, <<>>)

\* h.Write([]byte(node.Name)); h.Write([]byte(node.ExternalIP)) for each node
RECURSIVE NodeBytes(_)
NodeBytes(nodes) ==
    IF nodes = <<>> THEN <<>>
    ELSE Head(nodes).Name \o Head(nodes).ExternalIP \o NodeBytes(Tail(nodes))

\* h.Write([]byte(ip)) for each static address
RECURSIVE IPBytes(_)
IPBytes(ips) ==
    IF ips = <<>> THEN <<>>
    ELSE Head(ips) \o IPBytes(Tail(ips))

Sha256HexBare(bytes) == bytes

\* hex.EncodeToString(sha256(bytes)): a non-empty string; the digest is taken to be
\* collision-free, so the hex string is the written bytes behind a marker byte
Sha256Hex(bytes) == <<0>> \o bytes

calculateHash(data) ==
    Sha256Hex(NodeBytes(SortNodes(data.Nodes)) \o IPBytes(SortStrings(data.StaticIPs)))

HashArgumentSortedInPlace(data) ==
    [data EXCEPT !.Nodes = SortNodes(@), !.StaticIPs = SortStrings(@)]

\* the argument of calculateHash after the call: the sorts work on copies (make,
\* copy), so the slices of data, of which StaticIPs is shared with
\* w.config.StaticIPs, are as they were
HashArgumentAfter(data) == data

-----------------------------------------------------------------------------
(* NodeData *)

NodeInfo(name, ip) == [Name |-> name, ExternalIP |-> ip]

NodeAddressesReversed(nodes) ==
    [i \in 1..Len(nodes) |-> nodes[Len(nodes) + 1 - i].ExternalIP]

\* allIPs = append(allIPs, ip), in the loop that appends to nodes
RECURSIVE NodeAddresses(_)
NodeAddresses(nodes) ==
    IF nodes = <<>> THEN <<>>
    ELSE <<Head(nodes).ExternalIP>> \o NodeAddresses(Tail(nodes))

\* the NodeData renderAndExecute builds when the map is iterated in the given order
BuildData(table, order, static, ts) ==
    LET nodes == [i \in 1..Len(order) |-> NodeInfo(order[i], table[order[i]])]
    IN  [Nodes |-> nodes,
         StaticIPs |-> static,
         AllIPs |-> NodeAddresses(nodes) \o static,
         Timestamp |-> ts]

\* the name -> address pairs of a node list
TableOf(nodes) ==
    [n \in {nodes[i].Name : i \in DOMAIN nodes} |->
        (CHOOSE x \in Range(nodes) : x.Name = n).ExternalIP]

NoData == [Nodes |-> <<>>, StaticIPs |-> <<>>, AllIPs |-> <<>>, Timestamp |-> 1]

\* the NodeData values the hash is exercised on: node lists with distinct names
HashInputs ==
    UNION {{BuildData(tb, o, st, ts) :
                o \in Orderings(DOMAIN tb), st \in SeqsUpTo(StaticPool, MaxStatic),
                ts \in HashTimes} : tb \in Tables}

-----------------------------------------------------------------------------
(* The watcher *)

MainThread == <<"main", 0>>

\* the goroutines that deliver informer notifications to handleNodeEvent
Callbacks == {<<"informer", i>> : i \in 1..NumCallbacks}

Threads == {MainThread} \cup Callbacks

EventTypes == {"ADD", "UPDATE", "DELETE"}

\* the notifications delivered to handleNodeEvent: the event type and the node with
\* its external address, "" when it has none. handleNodeEvent reads no address on a
\* DELETE beyond logging it, so a DELETE is given without one.
Events ==
    [eventType : {"ADD", "UPDATE"}, name : NodeNames, newIP : IPs \cup {EmptyString}]
        \cup [eventType : {"DELETE"}, name : NodeNames, newIP : {EmptyString}]

\* the listings informer.GetStore().List() can return: each node with its external
\* address, or "" when it has none
Listings == UNION {[D -> IPs \cup {EmptyString}] : D \in SUBSET NodeNames}

NoLocal ==
    [eventType |-> "", nodeName |-> EmptyString, oldIP |-> EmptyString,
     newIP |-> EmptyString, changed |-> FALSE, before |-> EmptyString,
     invoked |-> FALSE, unmutated |-> FALSE, data |-> NoData, dataHash |-> EmptyString,
     outcome |-> "", created |-> FALSE, ran |-> FALSE, err |-> "nil",
     trace |-> <<>>, listing |-> EmptyTable]

NoCycle == [valid |-> FALSE, table |-> EmptyTable, outcome |-> ""]

NoFile == [status |-> "absent", content |-> EmptyTable]

\* the positions inside renderAndExecute
CycleStages == {"render", "create", "template", "sync", "command"}

\* the positions between w.mu.Lock() and the deferred w.mu.Unlock()
CriticalSection == CycleStages \cup {"unlock"}

Configs ==
    [MinNodeCount : 0..MaxMinNodeCount, StaticIPs : ConfigStaticIPs]

WatcherInit ==
    /\ nodeIPs = EmptyTable
    /\ currentHash = EmptyString
    /\ mu = FALSE
    /\ pc = [t \in Threads |-> IF t = MainThread THEN "start" ELSE "idle"]
    /\ local = [t \in Threads |-> NoLocal]
    /\ outputFile = NoFile
    /\ prev = NoCycle
    /\ mutated = FALSE
    /\ lifecycle = "running"

Init ==
    /\ WatcherInit
    /\ config \in Configs
    /\ hashIn = <<NoData, NoData>>
    /\ hashOut = <<EmptyString, EmptyString>>

\* the process has not exited: its goroutines run
Running == lifecycle # "exited"

CanLockAlways(held) == TRUE

\* w.mu.Lock() returns only when no goroutine holds the mutex
CanLock(held) == ~held

Lookup(table, name) == IF name \in DOMAIN table THEN table[name] ELSE EmptyString

PutIfAbsent(table, name, ip) ==
    [n \in DOMAIN table \cup {name} |-> IF n \in DOMAIN table THEN table[n] ELSE ip]

Put(table, name, ip) ==
    [n \in DOMAIN table \cup {name} |-> IF n = name THEN ip ELSE table[n]]

Remove(table, name) == [n \in DOMAIN table \ {name} |-> table[n]]

UpsertAlwaysChanged(oldIP, newIP) == TRUE

\* if oldIP != newIP
UpsertChanges(oldIP, newIP) == oldIP # newIP

\* the "Update internal state" block of handleNodeEvent: the new table and changed
ApplyEvent(table, eventType, name, newIP) ==
    LET oldIP == Lookup(table, name)
    IN  IF eventType = "DELETE"
        THEN IF name \in DOMAIN table
             THEN [table |-> Remove(table, name), changed |-> TRUE]
             ELSE [table |-> table, changed |-> FALSE]
        ELSE IF newIP # EmptyString /\ UpsertChanges(oldIP, newIP)
             THEN [table |-> Put(table, name, newIP), changed |-> TRUE]
             ELSE [table |-> table, changed |-> FALSE]

SafetyCheckAtMinimum(table, min) == Cardinality(DOMAIN table) <= min

SafetyCheckNever(table, min) == FALSE

\* if len(w.nodeIPs) < w.config.MinNodeCount, in handleNodeEvent
SafetyCheckFails(table, min) == Cardinality(DOMAIN table) < min

InitialBelowMinimumNever(table, min) == FALSE

\* if len(w.nodeIPs) < w.config.MinNodeCount, in initialSync
InitialBelowMinimum(table, min) == Cardinality(DOMAIN table) < min

RejectedTableRolledBack(before, after) == before

\* the table when the safety check has failed: handleNodeEvent logs and returns, the
\* update it made stays
RejectedTable(before, after) == after

\* handleNodeEvent up to the call of renderAndExecute (or the early return)
HandleNodeEvent(t, eventType, name, newIP) ==
    /\ Running
    /\ t \in Callbacks
    /\ pc[t] = "idle"
    /\ CanLock(mu)
    /\ mu' = TRUE
    /\ LET r == ApplyEvent(nodeIPs, eventType, name, newIP)
       IN  /\ nodeIPs' = IF r.changed /\ SafetyCheckFails(r.table, config.MinNodeCount)
                         THEN RejectedTable(nodeIPs, r.table)
                         ELSE r.table
           /\ mutated' = (mutated \/ nodeIPs' # nodeIPs)
           /\ local' = [local EXCEPT ![t] =
                  [NoLocal EXCEPT !.eventType = eventType, !.nodeName = name,
                                  !.oldIP = Lookup(nodeIPs, name), !.newIP = newIP,
                                  !.changed = r.changed, !.before = currentHash]]
           /\ pc' = [pc EXCEPT ![t] =
                  IF ~r.changed \/ SafetyCheckFails(r.table, config.MinNodeCount)
                  THEN "unlock" ELSE "render"]
    /\ UNCHANGED <<currentHash, config, outputFile, prev, lifecycle, hashIn, hashOut>>

BulkLoadAll(table, items) ==
    [n \in DOMAIN table \cup DOMAIN items |->
        IF n \in DOMAIN items THEN items[n] ELSE table[n]]

\* the loop of initialSync over the listed nodes
BulkLoad(table, items) ==
    LET withIP == {n \in DOMAIN items : items[n] # EmptyString}
    IN  [n \in DOMAIN table \cup withIP |-> IF n \in withIP THEN items[n] ELSE table[n]]

\* initialSync up to the call of renderAndExecute (or the return)
InitialSync(items) ==
    /\ Running
    /\ pc[MainThread] = "start"
    /\ CanLock(mu)
    /\ mu' = TRUE
    /\ LET table == BulkLoad(nodeIPs, items)
       IN  /\ nodeIPs' = table
           /\ mutated' = (mutated \/ table # nodeIPs)
           /\ local' = [local EXCEPT ![MainThread] =
                  [NoLocal EXCEPT !.eventType = "SYNC", !.before = currentHash,
                                  !.listing = items]]
           /\ pc' = [pc EXCEPT ![MainThread] =
                  IF InitialBelowMinimum(table, config.MinNodeCount) THEN "unlock"
                  ELSE IF Cardinality(DOMAIN table) > 0 THEN "render"
                  ELSE "unlock"]
    /\ UNCHANGED <<currentHash, config, outputFile, prev, lifecycle, hashIn, hashOut>>

HashNeverUnchanged(dataHash, lastHash) == FALSE

\* if dataHash == w.currentHash
HashUnchanged(dataHash, lastHash) == dataHash = lastHash

\* renderAndExecute from its entry to the comparison of the fingerprints
RenderBegin(t, order, ts) ==
    /\ Running
    /\ pc[t] = "render"
    /\ order \in Orderings(DOMAIN nodeIPs)
    /\ LET built == BuildData(nodeIPs, order, config.StaticIPs, ts)
           dataHash == calculateHash(built)
           data == HashArgumentAfter(built)
           noop == HashUnchanged(dataHash, currentHash)
       IN  /\ config' = [config EXCEPT !.StaticIPs = data.StaticIPs]
           /\ local' = [local EXCEPT ![t] =
                  [NoLocal EXCEPT !.invoked = TRUE, !.before = currentHash,
                                  !.unmutated = (prev.valid /\ ~mutated),
                                  !.data = IF noop THEN NoData ELSE data,
                                  !.dataHash = dataHash,
                                  !.outcome = IF noop THEN "noop" ELSE ""]]
           /\ pc' = [pc EXCEPT ![t] = IF noop THEN "unlock" ELSE "create"]
    /\ mutated' = FALSE
    /\ UNCHANGED <<nodeIPs, currentHash, mu, outputFile, prev, lifecycle, hashIn, hashOut>>

\* outputFile, err := os.Create(w.config.OutputPath)
Create(t, ok) ==
    /\ Running
    /\ pc[t] = "create"
    /\ IF ok
       THEN /\ outputFile' = [status |-> "empty", content |-> EmptyTable]
            /\ local' = [local EXCEPT ![t].created = TRUE,
                                      ![t].trace = Append(@, "create")]
            /\ pc' = [pc EXCEPT ![t] = "template"]
       ELSE /\ outputFile' = outputFile
            /\ local' = [local EXCEPT ![t].err = "create", ![t].outcome = "create",
                                      ![t].data = NoData]
            /\ pc' = [pc EXCEPT ![t] = "unlock"]
    /\ UNCHANGED <<nodeIPs, currentHash, config, mu, prev, mutated, lifecycle, hashIn, hashOut>>

\* w.tmpl.Execute(outputFile, data); a failing template may have written a part.
\* The rendered text is kept as the name -> address pairs it was rendered from.
ExecuteTemplate(t, ok) ==
    /\ Running
    /\ pc[t] = "template"
    /\ IF ok
       THEN /\ outputFile' = [status |-> "unsynced", content |-> TableOf(local[t].data.Nodes)]
            /\ local' = [local EXCEPT ![t].data = NoData,
                                      ![t].trace = Append(@, "template")]
            /\ pc' = [pc EXCEPT ![t] = "sync"]
       ELSE /\ outputFile' = [status |-> "partial", content |-> EmptyTable]
            /\ local' = [local EXCEPT ![t].err = "template", ![t].outcome = "template",
                                      ![t].data = NoData]
            /\ pc' = [pc EXCEPT ![t] = "unlock"]
    /\ UNCHANGED <<nodeIPs, currentHash, config, mu, prev, mutated, lifecycle, hashIn, hashOut>>

HashAfterSyncAlways(ok, dataHash, lastHash) == dataHash

\* w.currentHash = dataHash is reached only when outputFile.Sync() returned no error
HashAfterSync(ok, dataHash, lastHash) == IF ok THEN dataHash ELSE lastHash

AfterSyncAlwaysCommand(ok) == "command"

\* if err := outputFile.Sync(); err != nil { return ... }; return w.executeCommand()
AfterSync(ok) == IF ok THEN "command" ELSE "unlock"

\* outputFile.Sync(), w.currentHash = dataHash, and the start of executeCommand
Sync(t, ok) ==
    /\ Running
    /\ pc[t] = "sync"
    /\ currentHash' = HashAfterSync(ok, local[t].dataHash, currentHash)
    /\ outputFile' = IF ok THEN [outputFile EXCEPT !.status = "synced"] ELSE outputFile
    /\ IF AfterSync(ok) = "command"
       THEN /\ local' = [local EXCEPT ![t].ran = TRUE,
                                      ![t].trace = IF ok THEN @ \o <<"sync", "command">>
                                                   ELSE Append(@, "command")]
            /\ pc' = [pc EXCEPT ![t] = "command"]
       ELSE /\ local' = [local EXCEPT ![t].err = "sync", ![t].outcome = "sync"]
            /\ pc' = [pc EXCEPT ![t] = "unlock"]
    /\ UNCHANGED <<nodeIPs, config, mu, prev, mutated, lifecycle, hashIn, hashOut>>

\* cmd.Run() returns: executeCommand, and with it renderAndExecute, returns its error
CommandFinish(t, ok) ==
    /\ Running
    /\ pc[t] = "command"
    /\ local' = [local EXCEPT ![t].err = IF ok THEN "nil" ELSE "command",
                              ![t].outcome = IF ok THEN "ok" ELSE "command",
                              ![t].trace = Append(@, "finished")]
    /\ pc' = [pc EXCEPT ![t] = "unlock"]
    /\ UNCHANGED <<nodeIPs, currentHash, config, mu, outputFile, prev, mutated,
                   lifecycle, hashIn, hashOut>>

UnlockOnSuccess(t) ==
    /\ Running
    /\ pc[t] = "unlock"
    /\ mu' = (local[t].err # "nil")
    /\ prev' = IF local[t].invoked
               THEN [valid |-> TRUE, table |-> nodeIPs, outcome |-> local[t].outcome]
               ELSE prev
    /\ local' = [local EXCEPT ![t] = NoLocal]
    /\ pc' = [pc EXCEPT ![t] = IF t = MainThread THEN "done" ELSE "idle"]
    /\ UNCHANGED <<nodeIPs, currentHash, config, outputFile, mutated, lifecycle,
                   hashIn, hashOut>>

\* the deferred w.mu.Unlock(); the handler returns, Run goes on to <-ctx.Done()
Unlock(t) ==
    /\ Running
    /\ pc[t] = "unlock"
    /\ mu' = FALSE
    /\ prev' = IF local[t].invoked
               THEN [valid |-> TRUE, table |-> nodeIPs, outcome |-> local[t].outcome]
               ELSE prev
    /\ local' = [local EXCEPT ![t] = NoLocal]
    /\ pc' = [pc EXCEPT ![t] = IF t = MainThread THEN "done" ELSE "idle"]
    /\ UNCHANGED <<nodeIPs, currentHash, config, outputFile, mutated, lifecycle, hashIn, hashOut>>

Next ==
    \/ \E t \in Callbacks, e \in Events :
          HandleNodeEvent(t, e.eventType, e.name, e.newIP)
    \/ \E items \in Listings : InitialSync(items)
    \/ \E t \in Threads, order \in Orderings(DOMAIN nodeIPs), ts \in RenderTimes :
          RenderBegin(t, order, ts)
    \/ \E t \in Threads, ok \in BOOLEAN : Create(t, ok)
    \/ \E t \in Threads, ok \in BOOLEAN : ExecuteTemplate(t, ok)
    \/ \E t \in Threads, ok \in BOOLEAN : Sync(t, ok)
    \/ \E t \in Threads, ok \in BOOLEAN : CommandFinish(t, ok)
    \/ \E t \in Threads : Unlock(t)

Spec == Init /\ [][Next]_vars

\* loadConfig's defaults: MinNodeCount 1, no static addresses
DefaultConfig == [MinNodeCount |-> 1, StaticIPs |-> <<>>]

\* the next step of goroutine t inside its critical section
CycleStep(t) ==
    \/ Unlock(t)
    \/ \E ok \in BOOLEAN : CommandFinish(t, ok)
    \/ \E ok \in BOOLEAN : Sync(t, ok)
    \/ \E ok \in BOOLEAN : ExecuteTemplate(t, ok)
    \/ \E ok \in BOOLEAN : Create(t, ok)
    \/ /\ pc[t] = "render"
       /\ \E order \in Orderings(DOMAIN nodeIPs), ts \in RenderTimes :
              RenderBegin(t, order, ts)

\* handleNodeEvent can be entered by goroutine t
CanHandleEvent(t) == \E e \in Events : HandleNodeEvent(t, e.eventType, e.name, e.newIP)

\* the steps of the watcher in a run in which os.Create, tmpl.Execute, Sync and the
\* command all succeed
NoFailNext ==
    \/ \E t \in Callbacks, e \in Events :
          HandleNodeEvent(t, e.eventType, e.name, e.newIP)
    \/ \E items \in Listings : InitialSync(items)
    \/ \E t \in Threads, order \in Orderings(DOMAIN nodeIPs), ts \in RenderTimes :
          RenderBegin(t, order, ts)
    \/ \E t \in Threads : Create(t, TRUE)
    \/ \E t \in Threads : ExecuteTemplate(t, TRUE)
    \/ \E t \in Threads : Sync(t, TRUE)
    \/ \E t \in Threads : CommandFinish(t, TRUE)
    \/ \E t \in Threads : Unlock(t)

NoFailSpec == Init /\ [][NoFailNext]_vars

-----------------------------------------------------------------------------
(* Shutdown: main cancels ctx on SIGINT or SIGTERM and exits when Run returns *)

\* signal.NotifyContext: a first SIGINT or SIGTERM closes ctx.Done()
Signal ==
    /\ lifecycle = "running"
    /\ lifecycle' = "signalled"
    /\ UNCHANGED <<nodeIPs, currentHash, config, mu, pc, local, outputFile, prev, mutated,
                   hashIn, hashOut>>

\* cache.WaitForCacheSync(ctx.Done(), ...) returns false: Run returns the error
\* before initialSync and main exits with it
CacheSyncAbort ==
    /\ lifecycle = "signalled"
    /\ pc[MainThread] = "start"
    /\ lifecycle' = "exited"
    /\ UNCHANGED <<nodeIPs, currentHash, config, mu, pc, local, outputFile, prev, mutated,
                   hashIn, hashOut>>

\* <-ctx.Done(); return nil: Run returns after initialSync and main returns, which
\* ends the process and with it the goroutines of the informer, wherever they are
RunReturn ==
    /\ lifecycle = "signalled"
    /\ pc[MainThread] = "done"
    /\ lifecycle' = "exited"
    /\ UNCHANGED <<nodeIPs, currentHash, config, mu, pc, local, outputFile, prev, mutated,
                   hashIn, hashOut>>

ShutdownNext ==
    \/ Next
    \/ Signal
    \/ CacheSyncAbort
    \/ RunReturn

ShutdownInit ==
    /\ Init
    /\ config = DefaultConfig

ShutdownSpec == ShutdownInit /\ [][ShutdownNext]_vars

-----------------------------------------------------------------------------
(* calculateHash on its own: two NodeData values are drawn and both are hashed *)

HashInit ==
    /\ WatcherInit
    /\ config = [MinNodeCount |-> 1, StaticIPs |-> <<>>]
    /\ hashIn \in HashInputs \X HashInputs
    /\ hashOut = <<EmptyString, EmptyString>>

HashBoth ==
    /\ hashOut = <<EmptyString, EmptyString>>
    /\ hashOut' = <<calculateHash(hashIn[1]), calculateHash(hashIn[2])>>
    /\ hashIn' = <<HashArgumentAfter(hashIn[1]), HashArgumentAfter(hashIn[2])>>
    /\ UNCHANGED watcherVars

HashNext == HashBoth

HashSpec == HashInit /\ [][HashNext]_vars

-----------------------------------------------------------------------------
(* Properties *)

\* a goroutine has returned from renderAndExecute and is about to release the mutex
CycleDone(t) == pc[t] = "unlock" /\ local[t].invoked

\* a goroutine has run handleNodeEvent up to renderAndExecute or the early return
EventHandled(t) == pc[t] \in {"render", "unlock"} /\ local[t].eventType \in EventTypes

WriteFailures == {"create", "template", "sync"}

\* C1: after every call of renderAndExecute, currentHash differs from its value
\* before the call only if the write and the command both succeeded; after a call
\* whose command failed, currentHash is what it was before the call.
C1_HashOnlyAfterWriteAndCommand ==
    \A t \in Threads :
        CycleDone(t) =>
            /\ (currentHash # local[t].before => local[t].outcome = "ok")
            /\ (local[t].outcome = "command" => currentHash = local[t].before)

\* C2: the call of renderAndExecute that follows a call whose write succeeded and
\* whose command failed, with the table as it was in the failed call, is not a
\* no-op: it creates the file again.
C2_RetryAfterCommandFailure ==
    \A t \in Threads :
        (CycleDone(t) /\ prev.valid /\ prev.outcome = "command" /\ prev.table = nodeIPs)
            => (local[t].outcome # "noop" /\ local[t].created)

\* C3: a call of renderAndExecute in which os.Create, the template or Sync fails
\* returns an error, has not started the command and leaves currentHash as it was;
\* the next call for the same table is not skipped as unchanged.
C3_WriteFailureKeepsHash ==
    \A t \in Threads :
        /\ (CycleDone(t) /\ local[t].outcome \in WriteFailures)
               => /\ local[t].err # "nil"
                  /\ ~local[t].ran
                  /\ currentHash = local[t].before
        /\ (CycleDone(t) /\ prev.valid /\ prev.outcome \in WriteFailures
                /\ prev.table = nodeIPs)
               => local[t].outcome # "noop"

C3_Witness ==
    \E t \in Threads :
        /\ CycleDone(t) /\ prev.valid /\ prev.outcome \in WriteFailures
        /\ prev.table = nodeIPs
        /\ local[t].outcome = "ok"

\* C4 as stated: a call of renderAndExecute that follows another with no table
\* mutation in between is a no-op that returns success.
C4_SecondCallIsNoop ==
    \A t \in Threads :
        (CycleDone(t) /\ local[t].unmutated)
            => /\ local[t].outcome = "noop"
               /\ ~local[t].created /\ ~local[t].ran
               /\ local[t].err = "nil"

\* C4 amended: a call of renderAndExecute that follows, with no table mutation in
\* between, a call that was a no-op or got past Sync (whether or not its command
\* succeeded) is a no-op: no write, no command, success.
C4_SecondCallAfterWriteIsNoop ==
    \A t \in Threads :
        (CycleDone(t) /\ local[t].unmutated /\ prev.outcome \in {"noop", "command", "ok"})
            => /\ local[t].outcome = "noop"
               /\ ~local[t].created /\ ~local[t].ran
               /\ local[t].err = "nil"

C4_Witness ==
    \E t \in Threads :
        /\ CycleDone(t) /\ local[t].unmutated /\ prev.outcome = "ok"
        /\ local[t].outcome = "noop"

\* C5: renderAndExecute runs only while the table holds at least MinNodeCount
\* entries, the file is only ever rendered from that many nodes, and with
\* MinNodeCount = 1 a DELETE that empties the table returns without a render and
\* leaves currentHash as it was.
C5_MinimumNodeSafety ==
    /\ \A t \in Threads :
           pc[t] \in CycleStages => Cardinality(DOMAIN nodeIPs) >= config.MinNodeCount
    /\ outputFile.status \in {"unsynced", "synced"}
           => Cardinality(DOMAIN outputFile.content) >= config.MinNodeCount
    /\ \A t \in Threads :
           (EventHandled(t) /\ local[t].eventType = "DELETE" /\ local[t].changed
                /\ nodeIPs = EmptyTable /\ config.MinNodeCount = 1)
               => (pc[t] = "unlock" /\ currentHash = local[t].before)

C5_Witness ==
    \E t \in Threads :
        /\ EventHandled(t) /\ local[t].eventType = "DELETE" /\ local[t].changed
        /\ nodeIPs = EmptyTable /\ config.MinNodeCount = 1
        /\ currentHash # EmptyString
        /\ outputFile.status = "synced"

\* C6: an ADD or UPDATE carrying no external address for a node that has a table
\* entry removes the entry and counts as a change.
C6_EmptyAddressRemovesEntry ==
    \A t \in Threads :
        (EventHandled(t) /\ local[t].eventType \in {"ADD", "UPDATE"}
             /\ local[t].newIP = EmptyString /\ local[t].oldIP # EmptyString)
            => (local[t].nodeName \notin DOMAIN nodeIPs /\ local[t].changed)

\* an event that makes no effective change: the stored address again, or a DELETE
\* of a node that has no entry
NoEffect(l) ==
    \/ l.eventType \in {"ADD", "UPDATE"} /\ l.newIP # EmptyString /\ l.newIP = l.oldIP
    \/ l.eventType = "DELETE" /\ l.oldIP = EmptyString

\* C7: handling an event that makes no effective change leaves the table,
\* currentHash and the output file as they were and goes straight to the return,
\* without renderAndExecute; the return changes none of them either.
C7_NoEffectNoRender ==
    [][\A t \in Callbacks :
          /\ (pc[t] = "idle" /\ pc'[t] # "idle" /\ NoEffect(local'[t]))
                 => /\ pc'[t] = "unlock"
                    /\ ~local'[t].changed
                    /\ local'[t].oldIP = Lookup(nodeIPs, local'[t].nodeName)
                    /\ nodeIPs' = nodeIPs
                    /\ currentHash' = currentHash
                    /\ outputFile' = outputFile
          /\ (pc[t] = "unlock" /\ ~local[t].invoked /\ pc'[t] # "unlock")
                 => /\ pc'[t] = "idle"
                    /\ nodeIPs' = nodeIPs
                    /\ currentHash' = currentHash
                    /\ outputFile' = outputFile]_vars

C7_Witness ==
    \E t \in Callbacks :
        /\ pc[t] = "unlock"
        /\ local[t].eventType = "UPDATE" /\ local[t].newIP # EmptyString
        /\ local[t].newIP = local[t].oldIP
        /\ prev.valid /\ prev.outcome = "ok" /\ prev.table = nodeIPs

\* C8: at most one goroutine is between Lock and Unlock, and it holds the mutex.
C8_MutualExclusion ==
    /\ Cardinality({t \in Threads : pc[t] \in CriticalSection}) <= 1
    /\ (\E t \in Threads : pc[t] \in CriticalSection) => mu

C8_Witness ==
    \E t \in Callbacks :
        /\ pc[t] = "command"
        /\ pc[MainThread] = "start"
        /\ mu

Hashed == hashOut # <<EmptyString, EmptyString>>

Count(s, x) == Cardinality({i \in DOMAIN s : s[i] = x})

IsPermutation(s1, s2) ==
    /\ Len(s1) = Len(s2)
    /\ \A x \in Range(s1) \cup Range(s2) : Count(s1, x) = Count(s2, x)

\* C9: two NodeData values whose Nodes are permutations of each other and whose
\* StaticIPs are permutations of each other have the same fingerprint, whatever
\* their Timestamps.
C9_HashOrderAndTimeIndependent ==
    (Hashed /\ IsPermutation(hashIn[1].Nodes, hashIn[2].Nodes)
            /\ IsPermutation(hashIn[1].StaticIPs, hashIn[2].StaticIPs))
        => hashOut[1] = hashOut[2]

C9_Witness ==
    /\ Hashed
    /\ IsPermutation(hashIn[1].Nodes, hashIn[2].Nodes)
    /\ IsPermutation(hashIn[1].StaticIPs, hashIn[2].StaticIPs)
    /\ hashIn[1].Nodes # hashIn[2].Nodes
    /\ hashIn[1].StaticIPs # hashIn[2].StaticIPs
    /\ hashIn[1].Timestamp # hashIn[2].Timestamp
    /\ hashOut[1] = hashOut[2]

\* C10: two NodeData values whose sets of (name, address) pairs differ, or whose
\* StaticIPs differ as collections, have different fingerprints.
C10_HashDistinguishesValues ==
    (Hashed /\ (\/ Range(hashIn[1].Nodes) # Range(hashIn[2].Nodes)
                \/ ~IsPermutation(hashIn[1].StaticIPs, hashIn[2].StaticIPs)))
        => hashOut[1] # hashOut[2]

IsEmptySnapshot(data) == data.Nodes = <<>> /\ data.StaticIPs = <<>>

\* C11: the fingerprint of a NodeData with no nodes and no static addresses is one
\* fixed non-empty string, whatever the Timestamp; no fingerprint is the empty
\* string, so none compares equal to the currentHash a new Watcher starts with.
C11_EmptyDataHashFixedAndNonEmpty ==
    Hashed =>
        /\ \A i \in {1, 2} :
              /\ hashOut[i] # EmptyString
              /\ ~HashUnchanged(hashOut[i], currentHash)
        /\ (IsEmptySnapshot(hashIn[1]) /\ IsEmptySnapshot(hashIn[2]))
              => hashOut[1] = hashOut[2]

C11_Witness ==
    /\ hashOut[1] # EmptyString
    /\ IsEmptySnapshot(hashIn[1]) /\ IsEmptySnapshot(hashIn[2])
    /\ hashIn[1].Timestamp # hashIn[2].Timestamp
    /\ hashOut[1] = hashOut[2]
    /\ currentHash = EmptyString

\* the steps of a cycle that wrote the file once and then ran the command once
FullCycle == <<"create", "template", "sync", "command", "finished">>

\* C12: a callback enters renderAndExecute only for an event that changed the table
\* and passed the gate. When no write and no command fails, a cycle whose
\* fingerprint differs from the currentHash it found creates, renders and syncs the
\* file exactly once and then runs the command exactly once; a cycle whose
\* fingerprint equals that currentHash writes nothing and runs nothing.
C12_ExactlyOncePerRealChange ==
    \A t \in Callbacks :
        /\ pc[t] = "render" =>
              /\ local[t].changed
              /\ Cardinality(DOMAIN nodeIPs) >= config.MinNodeCount
        /\ CycleDone(t) =>
              /\ (/\ local[t].dataHash # local[t].before
                  /\ local[t].outcome \notin WriteFailures \cup {"command"})
                    => (local[t].outcome = "ok" /\ local[t].trace = FullCycle)
              /\ local[t].dataHash = local[t].before
                    => (local[t].outcome = "noop" /\ local[t].trace = <<>>)

\* an event brought the table back to what the last successful cycle rendered
C12_Witness ==
    \E t \in Callbacks :
        /\ CycleDone(t)
        /\ local[t].outcome = "noop" /\ local[t].trace = <<>>
        /\ ~local[t].unmutated
        /\ prev.valid /\ prev.outcome = "ok" /\ prev.table = nodeIPs

\* C13: an initial sync that leaves fewer than MinNodeCount entries renders nothing,
\* runs no command, returns nil and leaves currentHash and the output file as they
\* were; its return releases the mutex and Run goes on; a later event that changes
\* the table and raises the count to MinNodeCount or more starts a render cycle.
C13_BelowMinimumInitialSync ==
    [][/\ (/\ pc[MainThread] = "start" /\ pc'[MainThread] # "start"
           /\ Cardinality(DOMAIN nodeIPs') < config.MinNodeCount)
             => /\ pc'[MainThread] = "unlock"
                /\ ~local'[MainThread].invoked
                /\ local'[MainThread].err = "nil"
                /\ local'[MainThread].trace = <<>>
                /\ currentHash' = currentHash
                /\ outputFile' = outputFile
       /\ (/\ pc[MainThread] = "unlock" /\ ~local[MainThread].invoked
           /\ pc'[MainThread] # "unlock")
             => /\ pc'[MainThread] = "done"
                /\ ~mu'
                /\ currentHash' = currentHash
       /\ \A t \in Callbacks :
             (/\ pc[MainThread] = "done"
              /\ pc[t] = "idle" /\ pc'[t] # "idle"
              /\ local'[t].changed
              /\ Cardinality(DOMAIN nodeIPs) < config.MinNodeCount
              /\ Cardinality(DOMAIN nodeIPs') >= config.MinNodeCount)
                => pc'[t] = "render"
      ]_vars

\* the initial sync has returned without a cycle (below a minimum of one or more),
\* no cycle has run since, and an event that reached the minimum is about to render
C13_Witness ==
    \E t \in Callbacks :
        /\ pc[MainThread] = "done"
        /\ ~prev.valid
        /\ config.MinNodeCount = MaxMinNodeCount
        /\ pc[t] = "render"
        /\ local[t].eventType = "ADD" /\ local[t].changed
        /\ Cardinality(DOMAIN nodeIPs) = config.MinNodeCount
        /\ currentHash = EmptyString
        /\ outputFile = NoFile

\* the positions of a cycle that has compared the fingerprints and is writing the
\* file or running the command
Midway == {"create", "template", "sync", "command"}

\* C14: the process does not exit while a goroutine is inside a render cycle: when
\* the process has exited, no goroutine was left between the start of the write and
\* the return of the command.
C14_ExitWaitsForCycle ==
    lifecycle = "exited" => \A t \in Threads : pc[t] \notin Midway

\* C15: an event that changed the table goes on to renderAndExecute exactly when
\* the number of entries of nodeIPs is at least MinNodeCount; StaticIPs do not count.
\* A count equal to MinNodeCount passes, and with MinNodeCount = 0 every change
\* passes, a DELETE that empties the table included.
C15_GateComparesTableSize ==
    \A t \in Callbacks :
        (EventHandled(t) /\ local[t].changed)
            => (pc[t] = "render" <=> Cardinality(DOMAIN nodeIPs) >= config.MinNodeCount)

\* with MinNodeCount = 0 a DELETE has emptied the table and goes on to render
C15_Witness ==
    \E t \in Callbacks :
        /\ EventHandled(t) /\ local[t].changed
        /\ local[t].eventType = "DELETE"
        /\ config.MinNodeCount = 0
        /\ config.StaticIPs # <<>>
        /\ nodeIPs = EmptyTable
        /\ pc[t] = "render"

\* C16: handleNodeEvent for node id: after an ADD or UPDATE with a non-empty address
\* a the table maps id to a; after a DELETE it has no entry for id; the entries of
\* all other nodes are as before; and a change is reported exactly when the mapping
\* for id after the event differs from the one before it.
C16_TableUpdateRules ==
    [][\A t \in Callbacks :
          (pc[t] = "idle" /\ pc'[t] # "idle") =>
              LET l == local'[t]
                  id == l.nodeName
              IN  /\ (l.eventType \in {"ADD", "UPDATE"} /\ l.newIP # EmptyString)
                        => Lookup(nodeIPs', id) = l.newIP
                  /\ l.eventType = "DELETE" => id \notin DOMAIN nodeIPs'
                  /\ \A n \in NodeNames \ {id} :
                        /\ n \in DOMAIN nodeIPs' <=> n \in DOMAIN nodeIPs
                        /\ Lookup(nodeIPs', n) = Lookup(nodeIPs, n)
                  /\ (l.eventType = "DELETE" \/ l.newIP # EmptyString)
                        => (l.changed <=>
                              \/ (id \in DOMAIN nodeIPs') # (id \in DOMAIN nodeIPs)
                              \/ Lookup(nodeIPs', id) # Lookup(nodeIPs, id))
      ]_vars

\* an UPDATE replaced the address of one node while another node kept its entry
C16_Witness ==
    \E t \in Callbacks :
        /\ EventHandled(t)
        /\ local[t].eventType = "UPDATE"
        /\ local[t].oldIP # EmptyString /\ local[t].newIP # EmptyString
        /\ local[t].oldIP # local[t].newIP
        /\ local[t].changed
        /\ Lookup(nodeIPs, local[t].nodeName) = local[t].newIP
        /\ Cardinality(DOMAIN nodeIPs) = 2

\* C17: in every reachable state nodeIPs maps node names to non-empty addresses, one
\* entry per node, and a snapshot built from it lists each node once.
C17_EntriesNonEmpty ==
    /\ DOMAIN nodeIPs \subseteq NodeNames
    /\ \A n \in DOMAIN nodeIPs : nodeIPs[n] # EmptyString
    /\ \A t \in Threads :
          pc[t] \in {"create", "template"} =>
              LET nodes == local[t].data.Nodes
              IN  /\ \A i, j \in DOMAIN nodes : nodes[i].Name = nodes[j].Name => i = j
                  /\ \A i \in DOMAIN nodes : nodes[i].ExternalIP # EmptyString

\* after an initial sync, two nodes are stored and a notification without an
\* address has been handled
C17_Witness ==
    \E t \in Callbacks :
        /\ pc[MainThread] = "done"
        /\ Cardinality(DOMAIN nodeIPs) = 2
        /\ EventHandled(t)
        /\ local[t].eventType \in {"ADD", "UPDATE"} /\ local[t].newIP = EmptyString

\* C18: the NodeData handed to the template has as Nodes exactly the entries of
\* nodeIPs, each once; as StaticIPs the configured list in its configured order;
\* and as AllIPs the addresses of Nodes in the order of Nodes followed by StaticIPs,
\* whatever the table contains.
C18_SnapshotStructure ==
    \A t \in Threads :
        pc[t] \in {"create", "template"} =>
            LET data == local[t].data
                n == Len(data.Nodes)
            IN  /\ n = Cardinality(DOMAIN nodeIPs)
                /\ TableOf(data.Nodes) = nodeIPs
                /\ data.StaticIPs = config.StaticIPs
                /\ Len(data.AllIPs) = n + Len(config.StaticIPs)
                /\ \A i \in 1..n : data.AllIPs[i] = data.Nodes[i].ExternalIP
                /\ \A j \in 1..Len(config.StaticIPs) :
                      data.AllIPs[n + j] = config.StaticIPs[j]

\* two nodes with different addresses and two static addresses reach the template
C18_Witness ==
    \E t \in Threads :
        /\ pc[t] = "template"
        /\ Len(local[t].data.Nodes) = 2
        /\ local[t].data.Nodes[1].ExternalIP # local[t].data.Nodes[2].ExternalIP
        /\ Len(local[t].data.StaticIPs) = 2
        /\ Len(local[t].data.AllIPs) = 4

\* how far a goroutine is from its return: the statements of a critical section in
\* the order of the code
Rank(position) ==
    CASE position = "render" -> 1
      [] position = "create" -> 2
      [] position = "template" -> 3
      [] position = "sync" -> 4
      [] position = "command" -> 5
      [] position = "unlock" -> 6
      [] OTHER -> 7

\* the positions at which a file operation or the command is awaited or has
\* returned, with or without an error
AfterRender == CriticalSection \ {"render"}

\* C19: the mutex is held exactly while a goroutine is between Lock and its return,
\* so every return, after whatever failure, leaves it released; a goroutine that is
\* past the comparison of the fingerprints always has a next step (the command is
\* taken to terminate) and every step inside the critical section takes it nearer
\* to its return; and while the mutex is free an idle callback can handle an event.
\* The watcher is never stuck and never stays locked.
C19_NeverWedged ==
    /\ [](/\ mu <=> (\E t \in Threads : pc[t] \in CriticalSection)
          /\ \A t \in Threads : pc[t] \in AfterRender => ENABLED CycleStep(t)
          /\ \A t \in Callbacks : (pc[t] = "idle" /\ ~mu) => ENABLED CanHandleEvent(t))
    /\ [][\A t \in Threads :
             (pc[t] \in CriticalSection /\ pc'[t] # pc[t]) => Rank(pc'[t]) > Rank(pc[t])
        ]_vars

\* a handler returns after a failed command and the mutex is about to be released
C19_Witness ==
    \E t \in Callbacks :
        /\ CycleDone(t)
        /\ local[t].err = "command"
        /\ mu

IsPrefix(s, full) == Len(s) <= Len(full) /\ \A i \in 1..Len(s) : s[i] = full[i]

\* C20: inside a cycle the steps come in the order create, template, sync, command:
\* the template is run on a created file, the file is synced after the template,
\* the command is started only when create, template and sync of this cycle have
\* succeeded, on the file that was just synced, and a cycle that started the command
\* returns only after the command has finished.
C20_StepOrder ==
    \A t \in Threads :
        /\ IsPrefix(local[t].trace, FullCycle)
        /\ pc[t] = "template" => local[t].trace = <<"create">>
        /\ pc[t] = "sync" => local[t].trace = <<"create", "template">>
        /\ pc[t] = "command" =>
              /\ local[t].trace = <<"create", "template", "sync", "command">>
              /\ outputFile = [status |-> "synced", content |-> nodeIPs]
        /\ (CycleDone(t) /\ local[t].ran) =>
              /\ local[t].trace = FullCycle
              /\ local[t].outcome \in {"ok", "command"}

\* a cycle went through all four steps and its command has returned
C20_Witness ==
    \E t \in Threads :
        /\ CycleDone(t)
        /\ local[t].trace = FullCycle
        /\ local[t].outcome = "ok"
        /\ outputFile.status = "synced"

\* initialSync has loaded the listing and is at its return or at renderAndExecute
SyncLoaded == pc[MainThread] \in {"render", "unlock"} /\ local[MainThread].eventType = "SYNC"

\* C21: after its bulk load, initialSync goes on to renderAndExecute whenever the
\* number of entries of nodeIPs is at least MinNodeCount, an empty table under
\* MinNodeCount = 0 included.
C21_InitialSyncSameGate ==
    (SyncLoaded /\ Cardinality(DOMAIN nodeIPs) >= config.MinNodeCount)
        => pc[MainThread] = "render"

\* the listed nodes that have an external address, with that address
ListedWithIP(items) ==
    [n \in {m \in DOMAIN items : items[m] # EmptyString} |-> items[n]]

\* C22: when initialSync has loaded the listing, nodeIPs is the listing restricted to
\* the nodes with a non-empty external address: no entry for a node that is not
\* listed or is listed without an address, whatever events were handled before.
C22_TableEqualsListing ==
    SyncLoaded => nodeIPs = ListedWithIP(local[MainThread].listing)

\* the fingerprint of a table with the configured static addresses
HashOfTable(table, static) ==
    calculateHash(BuildData(table, CHOOSE o \in Orderings(DOMAIN table) : TRUE, static, 1))

\* C23: a cycle that has committed a new currentHash holds, from the commit to the
\* release of the mutex, the fingerprint of nodeIPs as it then is: no mutation of the
\* table falls between the snapshot and the commit or the release.
C23_CommitMatchesTable ==
    \A t \in Threads :
        (/\ pc[t] \in {"command", "unlock"}
         /\ local[t].invoked
         /\ currentHash # local[t].before)
            => /\ currentHash = local[t].dataHash
               /\ currentHash = HashOfTable(nodeIPs, config.StaticIPs)

\* a handler has committed the fingerprint of two entries while Run waits to take
\* the mutex for initialSync
C23_Witness ==
    \E t \in Callbacks :
        /\ CycleDone(t)
        /\ currentHash # local[t].before
        /\ pc[MainThread] = "start"
        /\ Cardinality(DOMAIN nodeIPs) = 2
        /\ currentHash = HashOfTable(nodeIPs, config.StaticIPs)

\* C24: calculateHash leaves its argument and the watcher as they were: the
\* NodeData that goes on to the template is the one renderAndExecute built from
\* the map in its iteration order, with StaticIPs in the configured order, not a
\* sorted one, and no step changes the configuration.
C24_HashLeavesInputAlone ==
    [][/\ config' = config
       /\ \A t \in Threads :
             /\ (pc[t] = "render" /\ pc'[t] = "create") =>
                   /\ local'[t].data.StaticIPs = config.StaticIPs
                   /\ \E order \in Orderings(DOMAIN nodeIPs) :
                         local'[t].data =
                             BuildData(nodeIPs, order, config.StaticIPs,
                                       local'[t].data.Timestamp)
             /\ (pc[t] = "create" /\ pc'[t] = "template") =>
                   local'[t].data = local[t].data
      ]_vars

\* a snapshot whose Nodes and StaticIPs are both out of sorted order is about to be
\* rendered
C24_Witness ==
    \E t \in Threads :
        /\ pc[t] = "template"
        /\ Len(local[t].data.Nodes) = 2
        /\ local[t].data.Nodes # SortNodes(local[t].data.Nodes)
        /\ local[t].data.StaticIPs # SortStrings(local[t].data.StaticIPs)
        /\ config.StaticIPs = local[t].data.StaticIPs

\* no goroutine is between Lock and its return
NoCycleInProgress == \A t \in Threads : pc[t] \notin CriticalSection

\* C25: whenever currentHash is set and no cycle is in progress, the output file is
\* a complete, synced rendering of a snapshot whose fingerprint is currentHash; so
\* no cycle is skipped as unchanged over an empty or partly written file.
C25_FileMatchesHash ==
    (currentHash # EmptyString /\ NoCycleInProgress)
        => /\ outputFile.status = "synced"
           /\ HashOfTable(outputFile.content, config.StaticIPs) = currentHash

\* C26: an event that changes the table and leaves it below MinNodeCount keeps its
\* change: the handler returns with the table as the event made it, and with
\* currentHash and the output file as they were; the next event is applied to, and
\* gated on, that table.
C26_RejectedChangeStays ==
    [][\A t \in Callbacks :
          /\ (pc[t] = "idle" /\ pc'[t] # "idle") =>
                LET l == local'[t]
                    r == ApplyEvent(nodeIPs, l.eventType, l.nodeName, l.newIP)
                IN  /\ nodeIPs' = r.table
                    /\ (l.changed /\ Cardinality(DOMAIN nodeIPs') < config.MinNodeCount)
                          => /\ pc'[t] = "unlock"
                             /\ nodeIPs' # nodeIPs
                             /\ currentHash' = currentHash
                             /\ outputFile' = outputFile
          /\ (pc[t] = "unlock" /\ ~local[t].invoked /\ pc'[t] = "idle")
                => /\ nodeIPs' = nodeIPs
                   /\ currentHash' = currentHash
                   /\ outputFile' = outputFile
      ]_vars

\* nothing runs, the last cycle applied a table of at least MinNodeCount entries,
\* and the table has since dropped below the minimum without a new cycle
C26_Witness ==
    /\ pc[MainThread] = "done"
    /\ NoCycleInProgress
    /\ prev.valid /\ prev.outcome = "ok"
    /\ Cardinality(DOMAIN prev.table) >= config.MinNodeCount
    /\ Cardinality(DOMAIN nodeIPs) < config.MinNodeCount
    /\ nodeIPs # prev.table /\ mutated
    /\ currentHash = HashOfTable(prev.table, config.StaticIPs)
    /\ outputFile = [status |-> "synced", content |-> prev.table]

\* initialSync has returned and no handler is running: with no further event this
\* is the state the watcher stays in
Quiescent == pc[MainThread] = "done" /\ NoCycleInProgress

\* C27: when no write and no command has failed, the initial sync has run and no
\* handler is running, a table of at least MinNodeCount entries has its
\* fingerprint, taken with the static list, in currentHash.
C27_Convergence ==
    (Quiescent /\ Cardinality(DOMAIN nodeIPs) >= config.MinNodeCount)
        => currentHash = HashOfTable(nodeIPs, config.StaticIPs)

\* C28: while Run has not yet run initialSync (it waits for the cache to sync or for
\* the mutex), no handler is inside or has been through a render cycle.
C28_NoRenderBeforeInitialSync ==
    pc[MainThread] = "start"
        => /\ ~prev.valid
           /\ \A t \in Callbacks : pc[t] \notin CycleStages /\ ~local[t].invoked

====
